---- MODULE Spec2Model ----
(***************************************************************************)
(* Model of the Mongo client manager of matthewhartstonge/storage          *)
(* (src/storage.go): the clients collection with its unique index on id,   *)
(* the hasher, and the client operations Create, Get, Update, Migrate,     *)
(* Delete, Authenticate, AuthenticateMigration, GrantScopes, RemoveScopes. *)
(* Under Spec every call is one action: calls are issued one after the     *)
(* other.  SessionSpec adds the PKCE and OpenID Connect session operations *)
(* of the request manager, ConcurrentSpec runs the client operations of    *)
(* two callers step by step, FailureSpec lets the database fail, ListSpec  *)
(* lists clients by filter, and StoreSpec follows the mgo sessions of the  *)
(* handlers and the start-up (Configure, NewDefaultMongoStore).            *)
(***************************************************************************)
EXTENDS Integers, Sequences, FiniteSets, TLC

VARIABLES
    clients,   \* the documents of the collection storage.EntityClients
    last,      \* history: the last call, its arguments and what it returned
    sessions,  \* the documents of the session collections, by collection name
    procs,     \* the calls in flight when callers run concurrently
    span,      \* the payloads logged on tracing spans (otLogQuery)
    indexes,   \* the indexes of the clients collection
    open,      \* the copies of the mgo session that are open
    stack      \* the calls of a caller in progress, innermost first

vars == <<clients, last, sessions, procs, span, indexes, open, stack>>

\* what the sequential calls of the client manager leave alone
others == <<sessions, procs, span, indexes, open, stack>>

----------------------------------------------------------------------------
(* Bounds and input domains *)

\* time.Now().Unix() returns a value in 1..MaxTime
MaxTime == 1

\* the ids callers pass explicitly, and the ids uuid.New() hands out
ClientIDs == {"c1"}
UUIDs == {"u1"}
AllIDs == ClientIDs \cup UUIDs
BlankID == ""

ScopeNames == {"read"}

\* error values
Nil == "nil"
ErrNotFound == "fosite.ErrNotFound"
ErrResourceExists == "storage.ErrResourceExists"
ErrAccessDenied == "fosite.ErrAccessDenied"
ErrMismatchedHash == "bcrypt.ErrMismatchedHashAndPassword"

----------------------------------------------------------------------------
(* Secret strings.  A secret string is a text wrapped in zero or more hash *)
(* layers, outermost first.  A layer n > 0 is a digest of the current      *)
(* hasher (fosite.BCrypt) made with salt n; layer 0 is a digest of the     *)
(* legacy algorithm the deployment migrates away from.  No layers: the     *)
(* text itself, i.e. a plaintext; the blank string has text "" too.        *)

Str(text, layers) == [text |-> text, layers |-> layers]
BlankSecret == Str("", <<>>)
LegacyHash(s) == Str(s.text, <<0>> \o s.layers)

\* c.hasher.Hash: a bcrypt digest of s under a salt
Hash(s, salt) == Str(s.text, <<salt>> \o s.layers)

\* c.hasher.Compare: nil exactly when hash is a bcrypt digest of secret
Compare(hash, secret) ==
    IF /\ Len(hash.layers) > 0
       /\ Head(hash.layers) > 0
       /\ Str(hash.text, Tail(hash.layers)) = secret
    THEN Nil
    ELSE ErrMismatchedHash

\* a string the current hasher produced
IsDigest(s) == Len(s.layers) > 0 /\ Head(s.layers) > 0

RECURSIVE SeqToSet(_)
SeqToSet(s) == IF s = <<>> THEN {} ELSE {Head(s)} \cup SeqToSet(Tail(s))

\* the salts occurring in the stored secrets
UsedSalts(coll) == UNION {SeqToSet(c.Secret.layers) : c \in coll}

\* bcrypt draws a random 128-bit salt for every digest, so a new digest never
\* equals a digest it is compared with or replaces: the salt of a new digest
\* is the least salt that is in no secret of coll and not in avoid
FreshSalt(coll, avoid) ==
    LET used == UsedSalts(coll) \cup avoid
    IN  CHOOSE n \in 1..(Cardinality(used) + 1) :
            /\ n \notin used
            /\ \A m \in 1..(n - 1) : m \in used

----------------------------------------------------------------------------
(* storage.Client *)

Client(id, secret, public, disabled, scopes, createTime, updateTime) ==
    [ID |-> id, Secret |-> secret, Public |-> public, Disabled |-> disabled,
     Scopes |-> scopes, CreateTime |-> createTime, UpdateTime |-> updateTime]

\* the zero value storage.Client{}
EmptyClient == Client(BlankID, BlankSecret, FALSE, FALSE, {}, 0, 0)

IsEmpty(client) == client = EmptyClient

GetHashedSecret(client) == client.Secret

----------------------------------------------------------------------------
(* The mgo collection, with the unique index on id that Configure builds *)

Find(coll, id) == {c \in coll : c.ID = id}

One(found) == CHOOSE c \in found : TRUE

\* the unique index on id that Configure builds
idxClientId == [Name |-> "IdxClientId", Key |-> <<"id">>, Unique |-> TRUE]

\* a collection whose unique index was never built
NoUniqueIndex(coll, doc) == FALSE

\* collection.Insert: refused with a duplicate-key error by the unique index
IsDup(coll, doc) == Find(coll, doc.ID) # {}

Insert(coll, doc) == coll \cup {doc}

\* collection.Remove: removes one matching document
Remove(coll, id) == coll \ {One(Find(coll, id))}

Ret(coll, result, err) == [clients |-> coll, result |-> result, err |-> err]

----------------------------------------------------------------------------
(* Operations of clientMongoManager *)

getConcrete(coll, clientID) ==
    IF Find(coll, clientID) = {}
    THEN Ret(coll, EmptyClient, ErrNotFound)
    ELSE Ret(coll, One(Find(coll, clientID)), Nil)

Get(coll, clientID) == getConcrete(coll, clientID)

\* the nil fosite.Client
NilClient == [nil |-> TRUE]

\* GetClient answers a pointer to the record getConcrete found, nil on error
GetClient(coll, clientID) ==
    LET got == getConcrete(coll, clientID)
    IN  IF got.err # Nil
        THEN Ret(coll, NilClient, got.err)
        ELSE Ret(coll, got.result, Nil)

\* Create that stores the secret as it comes, without hashing it
CreateStoresPlaintext(coll, client, uuid, now, salt) ==
    LET c1 == IF client.ID = BlankID THEN [client EXCEPT !.ID = uuid] ELSE client
        c2 == IF c1.CreateTime = 0 THEN [c1 EXCEPT !.CreateTime = now] ELSE c1
    IN  IF IsDup(coll, c2)
        THEN Ret(coll, EmptyClient, ErrResourceExists)
        ELSE Ret(Insert(coll, c2), c2, Nil)

\* Create that writes over the document already stored under the id
CreateOverwrites(coll, client, uuid, now, salt) ==
    LET c1 == IF client.ID = BlankID THEN [client EXCEPT !.ID = uuid] ELSE client
        c2 == IF c1.CreateTime = 0 THEN [c1 EXCEPT !.CreateTime = now] ELSE c1
        c3 == [c2 EXCEPT !.Secret = Hash(client.Secret, salt)]
    IN  Ret((coll \ Find(coll, c3.ID)) \cup {c3}, c3, Nil)

Create(coll, client, uuid, now, salt) ==
    LET c1 == IF client.ID = BlankID THEN [client EXCEPT !.ID = uuid] ELSE client
        c2 == IF c1.CreateTime = 0 THEN [c1 EXCEPT !.CreateTime = now] ELSE c1
        c3 == [c2 EXCEPT !.Secret = Hash(client.Secret, salt)]
    IN  IF IsDup(coll, c3)
        THEN Ret(coll, EmptyClient, ErrResourceExists)
        ELSE Ret(Insert(coll, c3), c3, Nil)

\* Delete that reports success when nothing matched
DeleteSilent(coll, clientID) ==
    IF Find(coll, clientID) = {}
    THEN Ret(coll, EmptyClient, Nil)
    ELSE Ret(Remove(coll, clientID), EmptyClient, Nil)

Delete(coll, clientID) ==
    IF Find(coll, clientID) = {}
    THEN Ret(coll, EmptyClient, ErrNotFound)
    ELSE Ret(Remove(coll, clientID), EmptyClient, Nil)

\* client.EnableScopeAccess / client.DisableScopeAccess
EnableScopeAccess(client, scopes) == [client EXCEPT !.Scopes = @ \cup scopes]
DisableScopeAccess(client, scopes) == [client EXCEPT !.Scopes = @ \ scopes]

\* collection.Update: replaces one document matching the selector
UpdateDoc(coll, id, doc) == (coll \ {One(Find(coll, id))}) \cup {doc}

\* collection.Upsert: replaces one matching document, inserts when none matches
Upsert(coll, id, doc) ==
    IF Find(coll, id) = {} THEN Insert(coll, doc) ELSE UpdateDoc(coll, id, doc)

\* Update that stores the secret of the record as it comes
UpdateSecretUnhashed(current, updated, salt) ==
    IF current = updated \/ updated = BlankSecret
    THEN current
    ELSE updated

\* Update that hashes whatever it is given, the stored hash included
UpdateSecretRehashes(current, updated, salt) ==
    IF updated = BlankSecret
    THEN current
    ELSE Hash(updated, salt)

\* the secret Update stores
UpdateSecret(current, updated, salt) ==
    IF current = updated \/ updated = BlankSecret
    THEN current
    ELSE Hash(updated, salt)

\* Update that leaves the update-time of the record as the caller set it
UpdateWithoutStamp(coll, clientID, updatedClient, now, salt) ==
    LET cur == getConcrete(coll, clientID)
        u == [updatedClient EXCEPT
                !.ID = clientID,
                !.Secret = UpdateSecret(cur.result.Secret, updatedClient.Secret, salt)]
    IN  IF cur.err # Nil
        THEN Ret(coll, EmptyClient, cur.err)
        ELSE Ret(UpdateDoc(coll, clientID, u), u, Nil)

\* Update that stores the record under the id the record carries
UpdateKeepsRecordID(coll, clientID, updatedClient, now, salt) ==
    LET cur == getConcrete(coll, clientID)
        u == [updatedClient EXCEPT
                !.UpdateTime = now,
                !.Secret = UpdateSecret(cur.result.Secret, updatedClient.Secret, salt)]
    IN  IF cur.err # Nil
        THEN Ret(coll, EmptyClient, cur.err)
        ELSE Ret(UpdateDoc(coll, clientID, u), u, Nil)

Update(coll, clientID, updatedClient, now, salt) ==
    LET cur == getConcrete(coll, clientID)
        u == [updatedClient EXCEPT
                !.ID = clientID,
                !.UpdateTime = now,
                !.Secret = UpdateSecret(cur.result.Secret, updatedClient.Secret, salt)]
    IN  IF cur.err # Nil
        THEN Ret(coll, EmptyClient, cur.err)
        ELSE Ret(UpdateDoc(coll, clientID, u), u, Nil)

\* the timestamps Migrate stamps
MigrateStamp(client, now) ==
    IF client.CreateTime = 0
    THEN [client EXCEPT !.CreateTime = now]
    ELSE [client EXCEPT !.UpdateTime = now]

Migrate(coll, migratedClient, uuid, now) ==
    LET m1 == IF migratedClient.ID = BlankID
              THEN [migratedClient EXCEPT !.ID = uuid]
              ELSE migratedClient
        m2 == MigrateStamp(m1, now)
    IN  Ret(Upsert(coll, m2.ID, m2), m2, Nil)

\* Authenticate without the disabled check
AuthenticateIgnoresDisabled(coll, clientID, secret) ==
    LET got == getConcrete(coll, clientID)
        client == got.result
        cmp == Compare(GetHashedSecret(client), secret)
    IN  IF got.err # Nil THEN Ret(coll, EmptyClient, got.err)
        ELSE IF client.Public THEN Ret(coll, client, Nil)
        ELSE IF cmp # Nil THEN Ret(coll, EmptyClient, cmp)
        ELSE Ret(coll, client, Nil)

\* Authenticate that decides disabled before public
AuthenticateDisabledFirst(coll, clientID, secret) ==
    LET got == getConcrete(coll, clientID)
        client == got.result
        cmp == Compare(GetHashedSecret(client), secret)
    IN  IF got.err # Nil THEN Ret(coll, EmptyClient, got.err)
        ELSE IF client.Disabled THEN Ret(coll, EmptyClient, ErrAccessDenied)
        ELSE IF client.Public THEN Ret(coll, client, Nil)
        ELSE IF cmp # Nil THEN Ret(coll, EmptyClient, cmp)
        ELSE Ret(coll, client, Nil)

Authenticate(coll, clientID, secret) ==
    LET got == getConcrete(coll, clientID)
        client == got.result
        cmp == Compare(GetHashedSecret(client), secret)
    IN  IF got.err # Nil THEN Ret(coll, EmptyClient, got.err)
        ELSE IF client.Public THEN Ret(coll, client, Nil)
        ELSE IF client.Disabled THEN Ret(coll, EmptyClient, ErrAccessDenied)
        ELSE IF cmp # Nil THEN Ret(coll, EmptyClient, cmp)
        ELSE Ret(coll, client, Nil)

\* the record AuthenticateMigration hands to Update on the migrate path
MigratedRecord(client, secret, salt) == [client EXCEPT !.Secret = Hash(secret, salt)]

\* AuthenticateMigration that refuses whoever the legacy function refused
AuthenticateMigrationNoFallback(coll, client, authenticated, clientID, secret, now, salt1, salt2) ==
    IF IsEmpty(client) /\ ~authenticated THEN Ret(coll, EmptyClient, ErrNotFound)
    ELSE IF client.Public THEN Ret(coll, client, Nil)
    ELSE IF client.Disabled THEN Ret(coll, EmptyClient, ErrAccessDenied)
    ELSE IF ~authenticated THEN Ret(coll, EmptyClient, ErrMismatchedHash)
    ELSE Update(coll, clientID, MigratedRecord(client, secret, salt1), now, salt2)

\* AuthenticateMigration that migrates whatever the legacy function decided
AuthenticateMigrationAlwaysMigrates(coll, client, authenticated, clientID, secret, now, salt1, salt2) ==
    IF IsEmpty(client) /\ ~authenticated THEN Ret(coll, EmptyClient, ErrNotFound)
    ELSE IF client.Public THEN Ret(coll, client, Nil)
    ELSE IF client.Disabled THEN Ret(coll, EmptyClient, ErrAccessDenied)
    ELSE Update(coll, clientID, MigratedRecord(client, secret, salt1), now, salt2)

\* client and authenticated are what the legacy function currentAuth() returns
AuthenticateMigration(coll, client, authenticated, clientID, secret, now, salt1, salt2) ==
    LET cmp == Compare(GetHashedSecret(client), secret)
    IN  IF IsEmpty(client) /\ ~authenticated THEN Ret(coll, EmptyClient, ErrNotFound)
        ELSE IF client.Public THEN Ret(coll, client, Nil)
        ELSE IF client.Disabled THEN Ret(coll, EmptyClient, ErrAccessDenied)
        ELSE IF ~authenticated
        THEN IF cmp # Nil THEN Ret(coll, EmptyClient, cmp) ELSE Ret(coll, client, Nil)
        ELSE Update(coll, clientID, MigratedRecord(client, secret, salt1), now, salt2)

GrantScopes(coll, clientID, scopes, now, salt) ==
    LET got == getConcrete(coll, clientID)
    IN  IF got.err # Nil THEN Ret(coll, EmptyClient, got.err)
        ELSE Update(coll, got.result.ID, EnableScopeAccess(got.result, scopes), now, salt)

RemoveScopes(coll, clientID, scopes, now, salt) ==
    LET got == getConcrete(coll, clientID)
    IN  IF got.err # Nil THEN Ret(coll, EmptyClient, got.err)
        ELSE Update(coll, got.result.ID, DisableScopeAccess(got.result, scopes), now, salt)

----------------------------------------------------------------------------
(* Session requests of requestMongoManager.  A requester is the           *)
(* fosite.Requester the engine hands over; a document is what toMongo      *)
(* makes of it; a session is the caller's payload, stored serialised.      *)

\* the session collections
EntityPKCESessions == "pkceSessions"
EntityOpenIDSessions == "openIDConnectSessions"
SessionEntities == {EntityPKCESessions, EntityOpenIDSessions}

Signatures == {"sig1", "sig2"}

\* a nil fosite.Session, a nil fosite.Requester
NilSession == [nil |-> "session"]
NilRequester == [nil |-> "requester"]

Session(data) == [data |-> data]

\* json.Marshal of a session, and json.Unmarshal of the bytes into the
\* session the caller supplies
Marshal(session) == [json |-> session.data]
Unmarshal(bytes, session) == [session EXCEPT !.data = bytes.json]

Requester(client, scopes, granted, audience, grantedAudience, form, session) ==
    [Client |-> client, RequestedScope |-> scopes, GrantedScope |-> granted,
     RequestedAudience |-> audience, GrantedAudience |-> grantedAudience,
     Form |-> form, Session |-> session]

GetSession(requester) == requester.Session

\* toMongo: the document stored for a requester under a signature
toMongo(signature, request) ==
    [Signature |-> signature,
     ClientID |-> request.Client.ID,
     RequestedScope |-> request.RequestedScope,
     GrantedScope |-> request.GrantedScope,
     RequestedAudience |-> request.RequestedAudience,
     GrantedAudience |-> request.GrantedAudience,
     Form |-> request.Form,
     Session |-> Marshal(GetSession(request))]

SRet(db, result, err) == [sessions |-> db, result |-> result, err |-> err]

FindBySignature(db, entityName, signature) ==
    {d \in db[entityName] : d.Signature = signature}

\* r.Create: an insert the unique index on signature refuses for a stored one
RequestCreate(db, entityName, doc) ==
    IF FindBySignature(db, entityName, doc.Signature) # {}
    THEN SRet(db, NilRequester, ErrResourceExists)
    ELSE SRet([db EXCEPT ![entityName] = @ \cup {doc}], doc, Nil)

GetBySignature(db, entityName, signature) ==
    IF FindBySignature(db, entityName, signature) = {}
    THEN SRet(db, NilRequester, ErrNotFound)
    ELSE SRet(db, One(FindBySignature(db, entityName, signature)), Nil)

DeleteBySignature(db, entityName, signature) ==
    IF FindBySignature(db, entityName, signature) = {}
    THEN SRet(db, NilRequester, ErrNotFound)
    ELSE SRet([db EXCEPT ![entityName] =
                    @ \ {One(FindBySignature(db, entityName, signature))}],
              NilRequester, Nil)

\* req.ToRequest: decodes the payload into the session when one is given,
\* and resolves the owning client through the client manager
ToRequest(db, req, session, coll) ==
    LET got == Get(coll, req.ClientID)
        decoded == IF session = NilSession
                   THEN NilSession
                   ELSE Unmarshal(req.Session, session)
    IN  IF got.err # Nil
        THEN SRet(db, NilRequester, got.err)
        ELSE SRet(db, Requester(got.result, req.RequestedScope, req.GrantedScope,
                                req.RequestedAudience, req.GrantedAudience,
                                req.Form, decoded), Nil)

\* a Create that reports success when the signature is already stored
CreateSessionIgnoresConflict(db, signature, request) ==
    LET r == RequestCreate(db, EntityPKCESessions, toMongo(signature, request))
    IN  IF r.err = ErrResourceExists
        THEN SRet(r.sessions, NilRequester, Nil)
        ELSE SRet(r.sessions, NilRequester, r.err)

CreatePKCERequestSession(db, signature, request) ==
    LET r == RequestCreate(db, EntityPKCESessions, toMongo(signature, request))
    IN  SRet(r.sessions, NilRequester, r.err)

CreateOpenIDConnectSession(db, authorizeCode, request) ==
    LET r == RequestCreate(db, EntityOpenIDSessions, toMongo(authorizeCode, request))
    IN  SRet(r.sessions, NilRequester, r.err)

\* a Get that hands out the stored request without its client when the
\* client cannot be resolved
GetSessionIgnoresClient(db, coll, signature, session) ==
    LET req == GetBySignature(db, EntityPKCESessions, signature)
        request == ToRequest(db, req.result, session, coll)
    IN  IF req.err # Nil THEN SRet(db, NilRequester, req.err)
        ELSE IF request.err # Nil
        THEN SRet(db, Requester(NilClient, req.result.RequestedScope,
                                req.result.GrantedScope, req.result.RequestedAudience,
                                req.result.GrantedAudience, req.result.Form,
                                NilSession), Nil)
        ELSE SRet(db, request.result, Nil)

GetPKCERequestSession(db, coll, signature, session) ==
    LET req == GetBySignature(db, EntityPKCESessions, signature)
        request == ToRequest(db, req.result, session, coll)
    IN  IF req.err # Nil THEN SRet(db, NilRequester, req.err)
        ELSE IF request.err # Nil THEN SRet(db, NilRequester, request.err)
        ELSE SRet(db, request.result, Nil)

GetOpenIDConnectSession(db, coll, authorizeCode, requester) ==
    LET req == GetBySignature(db, EntityOpenIDSessions, authorizeCode)
        session == GetSession(requester)
        request == ToRequest(db, req.result, session, coll)
    IN  IF req.err # Nil THEN SRet(db, NilRequester, req.err)
        ELSE IF session = NilSession THEN SRet(db, NilRequester, ErrNotFound)
        ELSE IF request.err # Nil THEN SRet(db, NilRequester, request.err)
        ELSE SRet(db, request.result, Nil)

\* a Delete that reports success when the signature is not stored
DeleteSessionIgnoresNotFound(db, signature) ==
    LET r == DeleteBySignature(db, EntityPKCESessions, signature)
    IN  SRet(r.sessions, NilRequester, Nil)

DeletePKCERequestSession(db, signature) ==
    DeleteBySignature(db, EntityPKCESessions, signature)

DeleteOpenIDConnectSession(db, authorizeCode) ==
    DeleteBySignature(db, EntityOpenIDSessions, authorizeCode)

----------------------------------------------------------------------------
(* Calls *)

Call(op, id, arg, secret, authed, scopes, r) ==
    [op |-> op, id |-> id, arg |-> arg, secret |-> secret, authed |-> authed,
     scopes |-> scopes, result |-> r.result, err |-> r.err]

\* a timestamp a caller sets itself
CallerTime == MaxTime + 1

S1 == Str("s1", <<>>)
S2 == Str("s2", <<>>)
Plaintexts == {S1, S2}

\* the records callers pass to Create: under the explicit id with every
\* combination of secret, flags and create-time, and with a blank id
CreateInputs ==
    {Client(id, s, p, d, {}, ct, 0) :
        id \in ClientIDs, s \in {S1, BlankSecret},
        p \in BOOLEAN, d \in BOOLEAN, ct \in {0, CallerTime}}
    \cup {Client(BlankID, S1, FALSE, d, {}, 0, 0) : d \in BOOLEAN}

\* the records callers pass to Update(id, rec): the bare record {disabled: true},
\* the stored record with a new secret or with the stored hash left in place,
\* and a record that carries another id
UpdateInputs(coll, id) ==
    {Client(BlankID, BlankSecret, FALSE, TRUE, {}, 0, 0),
     Client("u1", S2, FALSE, FALSE, {}, CallerTime, 0)}
    \cup {[c EXCEPT !.Secret = s] : c \in Find(coll, id), s \in Plaintexts}
    \cup Find(coll, id)

\* the records callers pass to Migrate: records of the legacy store, whose
\* secret is a legacy digest, or a plaintext when the caller is careless
MigrateInputs ==
    {Client(id, s, FALSE, FALSE, {}, ct, 0) :
        id \in ClientIDs, s \in {LegacyHash(S1), S1}, ct \in {0, CallerTime}}
    \cup {Client(BlankID, LegacyHash(S1), FALSE, FALSE, {}, 0, 0)}

\* what a legacy authentication function (AuthFunc) can return for id: nothing,
\* the record stored under id, or a record of the legacy store
LegacyClients(coll, id) ==
    {EmptyClient} \cup Find(coll, id)
        \cup {Client(id, LegacyHash(S1), FALSE, FALSE, {}, CallerTime, 0)}

\* the salt of the next digest written under id
NextSalt(coll, id, avoid) == FreshSalt(Find(coll, id), avoid)

\* no session stored, no call in flight, nothing logged
NoSessions == [e \in SessionEntities |-> {}]

\* the concurrent callers, and what is known of a caller's call: where it
\* stands, the operation and its id argument, the record it carries (the
\* argument, then the record to write, then the result), the scopes, the
\* time and salt it drew, its error, and how many calls the caller has made
Procs == {"p1", "p2"}
Proc(pc, op, id, doc, scopes, now, salt, err, calls) ==
    [pc |-> pc, op |-> op, id |-> id, doc |-> doc, scopes |-> scopes,
     now |-> now, salt |-> salt, err |-> err, calls |-> calls]

\* a caller that has made no call yet
Idle == [pc |-> "idle", op |-> "none", calls |-> 0]

Init ==
    /\ clients = {}
    /\ last = Call("init", BlankID, EmptyClient, BlankSecret, FALSE, {},
                   Ret({}, EmptyClient, Nil))
    /\ sessions = NoSessions
    /\ procs = [p \in Procs |-> Idle]
    /\ span = {}
    /\ indexes = {idxClientId}
    /\ open = {}
    /\ stack = <<>>

CreateCall ==
    /\ UNCHANGED others
    /\ \E client \in CreateInputs, now \in 1..MaxTime, uuid \in UUIDs :
        /\ Find(clients, uuid) = {}
        /\ LET r == Create(clients, client, uuid, now, NextSalt(clients, client.ID, {}))
           IN  /\ clients' = r.clients
               /\ last' = Call("Create", client.ID, client, client.Secret, FALSE, {}, r)

GetCall ==
    /\ UNCHANGED others
    /\ \E id \in AllIDs :
        /\ last' = Call("Get", id, EmptyClient, BlankSecret, FALSE, {}, Get(clients, id))
        /\ UNCHANGED clients

GetClientCall ==
    /\ UNCHANGED others
    /\ \E id \in AllIDs :
        /\ last' = Call("GetClient", id, EmptyClient, BlankSecret, FALSE, {},
                         GetClient(clients, id))
        /\ UNCHANGED clients

DeleteCall ==
    /\ UNCHANGED others
    /\ \E id \in AllIDs :
        /\ LET r == Delete(clients, id)
           IN  /\ clients' = r.clients
               /\ last' = Call("Delete", id, EmptyClient, BlankSecret, FALSE, {}, r)

UpdateCall ==
    /\ UNCHANGED others
    /\ \E id \in ClientIDs, now \in 1..MaxTime :
        \E rec \in UpdateInputs(clients, id) :
            /\ LET r == Update(clients, id, rec, now, NextSalt(clients, id, {}))
               IN  /\ clients' = r.clients
                   /\ last' = Call("Update", id, rec, rec.Secret, FALSE, {}, r)

MigrateCall ==
    /\ UNCHANGED others
    /\ \E rec \in MigrateInputs, now \in 1..MaxTime, uuid \in UUIDs :
        /\ Find(clients, uuid) = {}
        /\ LET r == Migrate(clients, rec, uuid, now)
           IN  /\ clients' = r.clients
               /\ last' = Call("Migrate", rec.ID, rec, rec.Secret, FALSE, {}, r)

AuthenticateCall ==
    /\ UNCHANGED others
    /\ \E id \in AllIDs, secret \in Plaintexts :
        /\ last' = Call("Authenticate", id, EmptyClient, secret, FALSE, {},
                         Authenticate(clients, id, secret))
        /\ UNCHANGED clients

AuthenticateMigrationCall ==
    /\ UNCHANGED others
    /\ \E id \in ClientIDs, secret \in Plaintexts, authenticated \in BOOLEAN,
       now \in 1..MaxTime :
        \E client \in LegacyClients(clients, id) :
            /\ LET salt1 == NextSalt(clients, id, {})
                   salt2 == NextSalt(clients, id, {salt1})
                   r == AuthenticateMigration(clients, client, authenticated, id,
                                              secret, now, salt1, salt2)
               IN  /\ clients' = r.clients
                   /\ last' = Call("AuthenticateMigration", id, client, secret,
                                   authenticated, {}, r)

GrantScopesCall ==
    /\ UNCHANGED others
    /\ \E id \in ClientIDs, scopes \in (SUBSET ScopeNames) \ {{}}, now \in 1..MaxTime :
        /\ LET r == GrantScopes(clients, id, scopes, now, NextSalt(clients, id, {}))
           IN  /\ clients' = r.clients
               /\ last' = Call("GrantScopes", id, EmptyClient, BlankSecret, FALSE, scopes, r)

RemoveScopesCall ==
    /\ UNCHANGED others
    /\ \E id \in ClientIDs, scopes \in (SUBSET ScopeNames) \ {{}}, now \in 1..MaxTime :
        /\ LET r == RemoveScopes(clients, id, scopes, now, NextSalt(clients, id, {}))
           IN  /\ clients' = r.clients
               /\ last' = Call("RemoveScopes", id, EmptyClient, BlankSecret, FALSE, scopes, r)

Next ==
    \/ CreateCall
    \/ GetCall
    \/ GetClientCall
    \/ UpdateCall
    \/ MigrateCall
    \/ DeleteCall
    \/ AuthenticateCall
    \/ AuthenticateMigrationCall
    \/ GrantScopesCall
    \/ RemoveScopesCall

Spec == Init /\ [][Next]_vars

----------------------------------------------------------------------------
(* The session operations, with the client operations that decide whether  *)
(* the owning client of a session resolves                                 *)

SessionCall(op, entity, sig, request, session, r) ==
    [op |-> op, entity |-> entity, sig |-> sig, request |-> request,
     session |-> session, result |-> r.result, err |-> r.err]

\* the client the sessions belong to, and a client that is never stored
SessionClient == Client("c1", S1, FALSE, FALSE, {}, 0, 0)
UnstoredClient == Client("u1", Hash(S2, 1), FALSE, FALSE, {}, CallerTime, 0)

\* the requesters the engine hands to Create*Session: one of a stored client
\* and one of a client that is not stored, which differ in every field
Requesters(coll) ==
    {Requester(c, <<"openid", "read">>, <<"read">>, <<"api">>, <<>>,
               [state |-> <<"xyz">>], Session("d1")) : c \in coll}
    \cup {Requester(UnstoredClient, <<>>, <<>>, <<>>, <<"api">>,
                    [code |-> <<"abc">>], Session("d2"))}

\* the sessions callers hand to Get*Session to decode into: a blank session
\* of the caller's type, or nil
SessionDestinations == {Session(""), NilSession}

\* the requester GetOpenIDConnectSession takes the session from
DestinationRequester(session) ==
    Requester(EmptyClient, <<>>, <<>>, <<>>, <<>>, <<>>, session)

SessionClientCreate ==
    /\ UNCHANGED <<sessions, procs, span, indexes, open, stack>>
    /\ \E now \in 1..MaxTime :
        /\ LET r == Create(clients, SessionClient, "u1", now,
                           NextSalt(clients, SessionClient.ID, {}))
           IN  /\ clients' = r.clients
               /\ last' = Call("Create", SessionClient.ID, SessionClient,
                               SessionClient.Secret, FALSE, {}, r)

\* the client is updated: disabled, its secret left as stored
SessionClientUpdate ==
    /\ UNCHANGED <<sessions, procs, span, indexes, open, stack>>
    /\ \E now \in 1..MaxTime, c \in Find(clients, SessionClient.ID) :
        /\ LET rec == [c EXCEPT !.Disabled = TRUE]
               r == Update(clients, c.ID, rec, now, NextSalt(clients, c.ID, {}))
           IN  /\ clients' = r.clients
               /\ last' = Call("Update", c.ID, rec, rec.Secret, FALSE, {}, r)

SessionClientDelete ==
    /\ UNCHANGED <<sessions, procs, span, indexes, open, stack>>
    /\ LET r == Delete(clients, SessionClient.ID)
       IN  /\ clients' = r.clients
           /\ last' = Call("Delete", SessionClient.ID, EmptyClient, BlankSecret,
                           FALSE, {}, r)

CreatePKCECall ==
    /\ UNCHANGED <<clients, procs, span, indexes, open, stack>>
    /\ \E sig \in Signatures, request \in Requesters(clients) :
        /\ LET r == CreatePKCERequestSession(sessions, sig, request)
           IN  /\ sessions' = r.sessions
               /\ last' = SessionCall("CreateSession", EntityPKCESessions, sig, request,
                                      NilSession, r)

CreateOpenIDConnectCall ==
    /\ UNCHANGED <<clients, procs, span, indexes, open, stack>>
    /\ \E sig \in Signatures, request \in Requesters(clients) :
        /\ LET r == CreateOpenIDConnectSession(sessions, sig, request)
           IN  /\ sessions' = r.sessions
               /\ last' = SessionCall("CreateSession", EntityOpenIDSessions, sig, request,
                                      NilSession, r)

GetPKCECall ==
    /\ UNCHANGED <<clients, sessions, procs, span, indexes, open, stack>>
    /\ \E sig \in Signatures, session \in SessionDestinations :
        last' = SessionCall("GetSession", EntityPKCESessions, sig, NilRequester, session,
                            GetPKCERequestSession(sessions, clients, sig, session))

GetOpenIDConnectCall ==
    /\ UNCHANGED <<clients, sessions, procs, span, indexes, open, stack>>
    /\ \E sig \in Signatures, session \in SessionDestinations :
        last' = SessionCall("GetSession", EntityOpenIDSessions, sig, NilRequester, session,
                            GetOpenIDConnectSession(sessions, clients, sig,
                                                    DestinationRequester(session)))

DeletePKCECall ==
    /\ UNCHANGED <<clients, procs, span, indexes, open, stack>>
    /\ \E sig \in Signatures :
        /\ LET r == DeletePKCERequestSession(sessions, sig)
           IN  /\ sessions' = r.sessions
               /\ last' = SessionCall("DeleteSession", EntityPKCESessions, sig,
                                      NilRequester, NilSession, r)

DeleteOpenIDConnectCall ==
    /\ UNCHANGED <<clients, procs, span, indexes, open, stack>>
    /\ \E sig \in Signatures :
        /\ LET r == DeleteOpenIDConnectSession(sessions, sig)
           IN  /\ sessions' = r.sessions
               /\ last' = SessionCall("DeleteSession", EntityOpenIDSessions, sig,
                                      NilRequester, NilSession, r)

SessionNext ==
    \/ SessionClientCreate
    \/ SessionClientUpdate
    \/ SessionClientDelete
    \/ CreatePKCECall
    \/ CreateOpenIDConnectCall
    \/ GetPKCECall
    \/ GetOpenIDConnectCall
    \/ DeletePKCECall
    \/ DeleteOpenIDConnectCall

SessionSpec == Init /\ [][SessionNext]_vars

----------------------------------------------------------------------------
(* Concurrent callers.  Each caller runs its call on its own copy of the   *)
(* mgo session; a step is one operation on the collection, which the       *)
(* database applies atomically, with whatever the handler computes before  *)
(* the next one.                                                           *)

\* the calls each caller makes
MaxCalls == 2

\* the concurrent calls fall in one second of the clock
ConcurrentNow == MaxTime

\* the salts of the digests that calls in flight have made
SaltsInFlight ==
    UNION {SeqToSet(procs[q].doc.Secret.layers) \cup {procs[q].salt} :
              q \in {r \in Procs : procs[r].pc # "idle"}}

ConcurrentSalt(id, avoid) == FreshSalt(Find(clients, id), SaltsInFlight \cup avoid)

CanStart(p) == procs[p].pc \in {"idle", "done"} /\ procs[p].calls < MaxCalls

\* the caller's call returns
Done(p, result, err) ==
    Proc("done", procs[p].op, procs[p].id, result, {}, 0, 0, err, procs[p].calls)

\* the records concurrent callers pass to Create, Update and Migrate, and the
\* record the legacy function of AuthenticateMigration returns
ConcurrentCreateInput == Client("c1", S1, FALSE, FALSE, {}, 0, 0)
ConcurrentUpdateInput == Client(BlankID, BlankSecret, FALSE, TRUE, {}, 0, 0)
ConcurrentMigrateInput == Client("c1", LegacyHash(S1), FALSE, FALSE, {}, 0, 0)
ConcurrentLegacyClient == Client("c1", LegacyHash(S1), FALSE, FALSE, {}, CallerTime, 0)

\* Create called: the id and create-time are filled in and the secret hashed
StartCreate ==
    /\ UNCHANGED <<clients, last, sessions, span, indexes, open, stack>>
    /\ \E p \in Procs, now \in {ConcurrentNow} :
        /\ CanStart(p)
        /\ procs' = [procs EXCEPT ![p] =
              Proc("create.insert", "Create", ConcurrentCreateInput.ID,
                   ConcurrentCreateInput, {}, now,
                   ConcurrentSalt(ConcurrentCreateInput.ID, {}), Nil, @.calls + 1)]

\* collection.Insert of Create
CreateInsert ==
    /\ UNCHANGED <<last, sessions, span, indexes, open, stack>>
    /\ \E p \in Procs, uuid \in UUIDs :
        /\ procs[p].pc = "create.insert"
        /\ LET r == Create(clients, procs[p].doc, uuid, procs[p].now, procs[p].salt)
           IN  /\ clients' = r.clients
               /\ procs' = [procs EXCEPT ![p] = Done(p, r.result, r.err)]

\* Update called
StartUpdate ==
    /\ UNCHANGED <<clients, last, sessions, span, indexes, open, stack>>
    /\ \E p \in Procs, id \in ClientIDs, now \in {ConcurrentNow} :
        /\ CanStart(p)
        /\ procs' = [procs EXCEPT ![p] =
              Proc("update.read", "Update", id, ConcurrentUpdateInput, {}, now, 0,
                   Nil, @.calls + 1)]

\* getConcrete of Update: the record to write is made of the record read
UpdateRead ==
    /\ UNCHANGED <<clients, last, sessions, span, indexes, open, stack>>
    /\ \E p \in Procs :
        /\ procs[p].pc = "update.read"
        /\ LET cur == getConcrete(clients, procs[p].id)
               salt == ConcurrentSalt(procs[p].id, {})
               u == Update({cur.result}, procs[p].id, procs[p].doc,
                           procs[p].now, salt).result
           IN  procs' = [procs EXCEPT ![p] =
                  IF cur.err # Nil
                  THEN Done(p, EmptyClient, cur.err)
                  ELSE [@ EXCEPT !.pc = "update.write", !.doc = u]]

\* a write of Update that stores the record whether or not a document matches
UpdateWriteUpserts ==
    /\ UNCHANGED <<last, sessions, span, indexes, open, stack>>
    /\ \E p \in Procs :
        /\ procs[p].pc = "update.write"
        /\ clients' = Upsert(clients, procs[p].id, procs[p].doc)
        /\ procs' = [procs EXCEPT ![p] = Done(p, procs[p].doc, Nil)]

\* collection.Update of Update
UpdateWrite ==
    /\ UNCHANGED <<last, sessions, span, indexes, open, stack>>
    /\ \E p \in Procs :
        /\ procs[p].pc = "update.write"
        /\ IF Find(clients, procs[p].id) = {}
           THEN /\ clients' = clients
                /\ procs' = [procs EXCEPT ![p] = Done(p, EmptyClient, ErrNotFound)]
           ELSE /\ clients' = UpdateDoc(clients, procs[p].id, procs[p].doc)
                /\ procs' = [procs EXCEPT ![p] = Done(p, procs[p].doc, Nil)]

\* Migrate called: collection.Upsert finds a document to replace or none
MigrateUpsert ==
    /\ UNCHANGED <<last, sessions, span, indexes, open, stack>>
    /\ \E p \in Procs, now \in {ConcurrentNow}, uuid \in UUIDs :
        /\ CanStart(p)
        /\ LET m == Migrate({}, ConcurrentMigrateInput, uuid, now).result
               call == Proc("migrate.insert", "Migrate", m.ID, m, {}, now, 0, Nil,
                            procs[p].calls + 1)
           IN  IF Find(clients, m.ID) = {}
               THEN /\ clients' = clients
                    /\ procs' = [procs EXCEPT ![p] = call]
               ELSE /\ clients' = UpdateDoc(clients, m.ID, m)
                    /\ procs' = [procs EXCEPT ![p] =
                          [call EXCEPT !.pc = "done", !.now = 0]]

\* the insert of an Upsert that found no document: the unique index refuses
\* it when a document with the id has been inserted meanwhile
MigrateInsert ==
    /\ UNCHANGED <<last, sessions, span, indexes, open, stack>>
    /\ \E p \in Procs :
        /\ procs[p].pc = "migrate.insert"
        /\ IF IsDup(clients, procs[p].doc)
           THEN /\ clients' = clients
                /\ procs' = [procs EXCEPT ![p] =
                      Done(p, EmptyClient, ErrResourceExists)]
           ELSE /\ clients' = Insert(clients, procs[p].doc)
                /\ procs' = [procs EXCEPT ![p] = Done(p, procs[p].doc, Nil)]

\* Delete called: collection.Remove
DeleteRemove ==
    /\ UNCHANGED <<last, sessions, span, indexes, open, stack>>
    /\ \E p \in Procs, id \in ClientIDs :
        /\ CanStart(p)
        /\ LET r == Delete(clients, id)
           IN  /\ clients' = r.clients
               /\ procs' = [procs EXCEPT ![p] =
                     Proc("done", "Delete", id, r.result, {}, 0, 0, r.err,
                          @.calls + 1)]

\* AuthenticateMigration called: the legacy function answers, and on the
\* migrate path the record with the new hash goes to Update
StartAuthenticateMigration ==
    /\ UNCHANGED <<clients, last, sessions, span, indexes, open, stack>>
    /\ \E p \in Procs, id \in ClientIDs, authenticated \in BOOLEAN,
          now \in {ConcurrentNow} :
        /\ CanStart(p)
        /\ LET salt == ConcurrentSalt(id, {})
               r == AuthenticateMigration({}, ConcurrentLegacyClient, FALSE, id, S1,
                                          now, salt, salt)
           IN  procs' = [procs EXCEPT ![p] =
                  IF authenticated
                  THEN Proc("update.read", "AuthenticateMigration", id,
                            MigratedRecord(ConcurrentLegacyClient, S1, salt), {},
                            now, 0, Nil, @.calls + 1)
                  ELSE Proc("done", "AuthenticateMigration", id, r.result, {}, 0, 0,
                            r.err, @.calls + 1)]

\* the scopes a caller grants or removes: each caller has its own
ConcurrentScopes(p) == IF p = "p1" THEN {"read"} ELSE {"write"}

\* GrantScopes or RemoveScopes called
StartScopes ==
    /\ UNCHANGED <<clients, last, sessions, span, indexes, open, stack>>
    /\ \E p \in Procs, id \in ClientIDs, op \in {"GrantScopes", "RemoveScopes"},
          now \in {ConcurrentNow} :
        /\ CanStart(p)
        /\ procs' = [procs EXCEPT ![p] =
              Proc("scopes.read", op, id, EmptyClient, ConcurrentScopes(p), now, 0, Nil,
                   @.calls + 1)]

\* getConcrete of GrantScopes and RemoveScopes: the record read, with the
\* scopes changed, goes to Update
ScopesRead ==
    /\ UNCHANGED <<clients, last, sessions, span, indexes, open, stack>>
    /\ \E p \in Procs :
        /\ procs[p].pc = "scopes.read"
        /\ LET cur == getConcrete(clients, procs[p].id)
               rec == IF procs[p].op = "GrantScopes"
                      THEN EnableScopeAccess(cur.result, procs[p].scopes)
                      ELSE DisableScopeAccess(cur.result, procs[p].scopes)
           IN  procs' = [procs EXCEPT ![p] =
                  IF cur.err # Nil
                  THEN Done(p, EmptyClient, cur.err)
                  ELSE [@ EXCEPT !.pc = "update.read", !.id = cur.result.ID,
                                 !.doc = rec, !.scopes = {}]]

ConcurrentNext ==
    \/ StartCreate
    \/ CreateInsert
    \/ StartUpdate
    \/ UpdateRead
    \/ UpdateWrite
    \/ MigrateUpsert
    \/ MigrateInsert
    \/ DeleteRemove
    \/ StartAuthenticateMigration
    \/ StartScopes
    \/ ScopesRead

ConcurrentSpec == Init /\ [][ConcurrentNext]_vars

----------------------------------------------------------------------------
(* Storage errors.  The write of a handler may fail with an error of the   *)
(* database that is neither not-found nor duplicate-key; the handler then  *)
(* logs the record on its tracing span (otLogQuery) and returns the error. *)

ErrStorage == "mgo: storage error"

\* the marker Create puts in place of the secret
Redacted == Str("REDACTED", <<>>)

\* what a call returns, with the records it logged on its span
Traced(r, logged) ==
    [clients |-> r.clients, result |-> r.result, err |-> r.err, logged |-> logged]

\* Create, when collection.Insert returns dbErr
CreateTraced(coll, client, uuid, now, salt, dbErr) ==
    LET prepared == Create({}, client, uuid, now, salt).result
    IN  IF dbErr = Nil
        THEN Traced(Create(coll, client, uuid, now, salt), {})
        ELSE Traced(Ret(coll, EmptyClient, dbErr),
                    {[prepared EXCEPT !.Secret = Redacted]})

\* Update, when collection.Update returns dbErr
UpdateTraced(coll, clientID, updatedClient, now, salt, dbErr) ==
    LET cur == getConcrete(coll, clientID)
        u == Update({cur.result}, clientID, updatedClient, now, salt).result
    IN  IF dbErr = Nil \/ cur.err # Nil
        THEN Traced(Update(coll, clientID, updatedClient, now, salt), {})
        ELSE Traced(Ret(coll, EmptyClient, dbErr), {u})

\* Migrate, when collection.Upsert returns dbErr
MigrateTraced(coll, migratedClient, uuid, now, dbErr) ==
    LET m == Migrate({}, migratedClient, uuid, now).result
    IN  IF dbErr = Nil
        THEN Traced(Migrate(coll, migratedClient, uuid, now), {})
        ELSE Traced(Ret(coll, EmptyClient, dbErr), {m})

StorageOutcomes == {Nil, ErrStorage}

CreateTracedCall ==
    /\ UNCHANGED <<sessions, procs, indexes, open, stack>>
    /\ \E client \in CreateInputs, now \in 1..MaxTime, uuid \in UUIDs,
          dbErr \in StorageOutcomes :
        /\ Find(clients, uuid) = {}
        /\ LET r == CreateTraced(clients, client, uuid, now,
                                 NextSalt(clients, client.ID, {}), dbErr)
           IN  /\ clients' = r.clients
               /\ span' = r.logged
               /\ last' = Call("Create", client.ID, client, client.Secret, FALSE, {}, r)

UpdateTracedCall ==
    /\ UNCHANGED <<sessions, procs, indexes, open, stack>>
    /\ \E id \in ClientIDs, now \in 1..MaxTime, dbErr \in StorageOutcomes :
        \E rec \in UpdateInputs(clients, id) :
            /\ LET r == UpdateTraced(clients, id, rec, now,
                                     NextSalt(clients, id, {}), dbErr)
               IN  /\ clients' = r.clients
                   /\ span' = r.logged
                   /\ last' = Call("Update", id, rec, rec.Secret, FALSE, {}, r)

MigrateTracedCall ==
    /\ UNCHANGED <<sessions, procs, indexes, open, stack>>
    /\ \E rec \in MigrateInputs, now \in 1..MaxTime, uuid \in UUIDs,
          dbErr \in StorageOutcomes :
        /\ Find(clients, uuid) = {}
        /\ LET r == MigrateTraced(clients, rec, uuid, now, dbErr)
           IN  /\ clients' = r.clients
               /\ span' = r.logged
               /\ last' = Call("Migrate", rec.ID, rec, rec.Secret, FALSE, {}, r)

FailureNext ==
    \/ CreateTracedCall
    \/ UpdateTracedCall
    \/ MigrateTracedCall

FailureSpec == Init /\ [][FailureNext]_vars

----------------------------------------------------------------------------
(* Listing clients *)

\* the scopes records carry and filters name when clients are listed
ListScopes == {"read", "write"}

\* the value a stored document holds under a bson key
FieldOf(doc, key) ==
    CASE key = "allowedTenantAccess" -> doc.AllowedTenantAccess
      [] key = "redirectUris" -> doc.RedirectURIs
      [] key = "grantTypes" -> doc.GrantTypes
      [] key = "responseTypes" -> doc.ResponseTypes
      [] key = "scopes" -> doc.Scopes
      [] key = "contacts" -> doc.Contacts
      [] key = "public" -> doc.Public
      [] key = "disabled" -> doc.Disabled

\* collection.Find(query): a document matches when it meets the condition
\* under every key of the query. A plain value matches an array field that
\* holds it and a scalar field equal to it, $all an array holding every
\* listed value, $in an array holding one of them.
Matches(doc, query) ==
    \A key \in DOMAIN query :
        LET cond == query[key]
            field == FieldOf(doc, key)
        IN  CASE cond.op = "$all" -> cond.val \subseteq field
              [] cond.op = "$in" -> cond.val \cap field # {}
              [] cond.op = "value" /\ key \in {"public", "disabled"} -> field = cond.val
              [] cond.op = "value" /\ key \notin {"public", "disabled"} -> cond.val \in field

\* query[key] = cond on a bson.M: a later assignment under a key replaces the
\* earlier one
Put(query, key, cond) ==
    [k \in DOMAIN query \cup {key} |-> IF k = key THEN cond ELSE query[k]]

\* a query built with the scope conditions in the other order
ListQueryIntersectionLast(filter) ==
    LET Value(v) == [op |-> "value", val |-> v]
        q0 == <<>>
        q1 == IF filter.AllowedTenantAccess # ""
              THEN Put(q0, "allowedTenantAccess", Value(filter.AllowedTenantAccess)) ELSE q0
        q2 == IF filter.RedirectURI # ""
              THEN Put(q1, "redirectUris", Value(filter.RedirectURI)) ELSE q1
        q3 == IF filter.GrantType # ""
              THEN Put(q2, "grantTypes", Value(filter.GrantType)) ELSE q2
        q4 == IF filter.ResponseType # ""
              THEN Put(q3, "responseTypes", Value(filter.ResponseType)) ELSE q3
        q5 == IF filter.ScopesUnion # {}
              THEN Put(q4, "scopes", [op |-> "$in", val |-> filter.ScopesUnion]) ELSE q4
        q6 == IF filter.ScopesIntersection # {}
              THEN Put(q5, "scopes", [op |-> "$all", val |-> filter.ScopesIntersection]) ELSE q5
        q7 == IF filter.Contact # ""
              THEN Put(q6, "contacts", Value(filter.Contact)) ELSE q6
        q8 == IF filter.Public THEN Put(q7, "public", Value(filter.Public)) ELSE q7
    IN  IF filter.Disabled THEN Put(q8, "disabled", Value(filter.Disabled)) ELSE q8

\* the query List builds from the fields of the filter that are set
ListQuery(filter) ==
    LET Value(v) == [op |-> "value", val |-> v]
        q0 == <<>>
        q1 == IF filter.AllowedTenantAccess # ""
              THEN Put(q0, "allowedTenantAccess", Value(filter.AllowedTenantAccess)) ELSE q0
        q2 == IF filter.RedirectURI # ""
              THEN Put(q1, "redirectUris", Value(filter.RedirectURI)) ELSE q1
        q3 == IF filter.GrantType # ""
              THEN Put(q2, "grantTypes", Value(filter.GrantType)) ELSE q2
        q4 == IF filter.ResponseType # ""
              THEN Put(q3, "responseTypes", Value(filter.ResponseType)) ELSE q3
        q5 == IF filter.ScopesIntersection # {}
              THEN Put(q4, "scopes", [op |-> "$all", val |-> filter.ScopesIntersection]) ELSE q4
        q6 == IF filter.ScopesUnion # {}
              THEN Put(q5, "scopes", [op |-> "$in", val |-> filter.ScopesUnion]) ELSE q5
        q7 == IF filter.Contact # ""
              THEN Put(q6, "contacts", Value(filter.Contact)) ELSE q6
        q8 == IF filter.Public THEN Put(q7, "public", Value(filter.Public)) ELSE q7
    IN  IF filter.Disabled THEN Put(q8, "disabled", Value(filter.Disabled)) ELSE q8

\* List answers every document the query matches
List(coll, filter) == Ret(coll, {c \in coll : Matches(c, ListQuery(filter))}, Nil)

\* the records created before listing: a storage.Client with its list fields,
\* which either all hold one value or are all empty
ListInputs ==
    {[ID |-> id, Secret |-> S1, Public |-> f[1], Disabled |-> f[2], Scopes |-> s,
      CreateTime |-> 0, UpdateTime |-> 0, AllowedTenantAccess |-> a,
      RedirectURIs |-> a, GrantTypes |-> a, ResponseTypes |-> a, Contacts |-> a] :
        id \in ClientIDs, s \in SUBSET ListScopes, a \in {{}, {"a"}},
        f \in {<<FALSE, FALSE>>, <<TRUE, FALSE>>, <<FALSE, TRUE>>}}
    \cup {[ID |-> BlankID, Secret |-> S1, Public |-> FALSE, Disabled |-> FALSE,
           Scopes |-> s, CreateTime |-> 0, UpdateTime |-> 0,
           AllowedTenantAccess |-> {"a"}, RedirectURIs |-> {"a"},
           GrantTypes |-> {"a"}, ResponseTypes |-> {"a"}, Contacts |-> {"a"}] :
        s \in SUBSET ListScopes}

\* the storage.ListClientsRequest values callers pass to List: two scope sets
\* of no, one or two scopes, with none, one or all of the other fields set
ListFilters ==
    LET Fields == {"tenant", "redirect", "grant", "response", "contact",
                   "public", "disabled"}
        Text(set, k) == IF k \in set THEN "a" ELSE ""
    IN  {[AllowedTenantAccess |-> Text(set, "tenant"),
          RedirectURI |-> Text(set, "redirect"), GrantType |-> Text(set, "grant"),
          ResponseType |-> Text(set, "response"), ScopesIntersection |-> si,
          ScopesUnion |-> su, Contact |-> Text(set, "contact"),
          Public |-> "public" \in set, Disabled |-> "disabled" \in set] :
            si \in {{}, {"read"}, ListScopes}, su \in {{}, {"read"}, ListScopes},
            set \in {{}, Fields} \cup {{k} : k \in Fields}}

ListCreateCall ==
    /\ UNCHANGED others
    /\ \E client \in ListInputs, uuid \in UUIDs :
        /\ Find(clients, uuid) = {}
        /\ LET r == Create(clients, client, uuid, MaxTime, NextSalt(clients, client.ID, {}))
           IN  /\ clients' = r.clients
               /\ last' = Call("Create", client.ID, client, client.Secret, FALSE, {}, r)

ListCall ==
    /\ UNCHANGED others
    /\ \E filter \in ListFilters :
        /\ LET r == List(clients, filter)
           IN  last' = [op |-> "List", filter |-> filter, result |-> r.result,
                        err |-> r.err]
        /\ UNCHANGED clients

ListNext ==
    \/ ListCreateCall
    \/ ListCall

ListSpec == Init /\ [][ListNext]_vars

----------------------------------------------------------------------------
(* Database sessions and start-up.  A call is a pair <<manager, method>>.  *)
(* Every handler takes its mgo session from the context it receives, or    *)
(* copies one when the context holds none, and hands the context with the  *)
(* session to the calls it makes.  A frame of the stack is a call in       *)
(* progress: the context it received, the session it runs on, whether it   *)
(* copied that session, the sessions open when it was entered, and the     *)
(* errors of the calls it has made so far.                                 *)

\* collection.EnsureIndex that builds an index whatever exists already
EnsureIndexAgain(idxs, idx) == idxs \cup {[idx EXCEPT !.Unique = (idxs = {})]}

\* collection.EnsureIndex: builds the index unless one with its key exists
EnsureIndex(idxs, idx) ==
    IF \E i \in idxs : i.Key = idx.Key THEN idxs ELSE idxs \cup {idx}

\* clientMongoManager.Configure; dbErr is the answer of the database
Configure(idxs, dbErr) ==
    IF dbErr # Nil
    THEN [indexes |-> idxs, err |-> dbErr]
    ELSE [indexes |-> EnsureIndex(idxs, idxClientId), err |-> Nil]

\* the managers NewDefaultMongoStore configures, in its order
Managers == <<"cache", "clients", "users", "requests">>

NewDefaultMongoStore == <<"mongo", "NewDefaultMongoStore">>

\* the calls a call makes, in order, when none of them fails
Callees(call) ==
    CASE call = <<"clients", "Update">> -> << <<"clients", "getConcrete">> >>
      [] call = <<"clients", "AuthenticateMigration">> -> << <<"clients", "Update">> >>
      [] call = <<"clients", "GrantScopes">> ->
            << <<"clients", "getConcrete">>, <<"clients", "Update">> >>
      [] call = <<"requests", "GetPKCERequestSession">> ->
            << <<"clients", "getConcrete">> >>
      [] call = NewDefaultMongoStore ->
            [i \in DOMAIN Managers |-> <<Managers[i], "Configure">>]
      [] OTHER -> <<>>

\* the calls a caller makes
TopCalls ==
    {<<"clients", "getConcrete">>, <<"clients", "Update">>,
     <<"clients", "AuthenticateMigration">>, <<"clients", "GrantScopes">>,
     <<"requests", "GetPKCERequestSession">>, <<"clients", "Configure">>,
     NewDefaultMongoStore}

\* a context without a session, and the contexts holding one of the sessions
NoSessionContext == [ok |-> FALSE, session |-> 0]
SessionContexts(handles) == {[ok |-> TRUE, session |-> h] : h \in handles}

\* a handler that copies a session whatever its context holds
OpenSessionAlwaysCopies(ctx, opened, held) ==
    LET used == opened \cup held
        h == CHOOSE n \in 1..(Cardinality(used) + 1) : n \notin used
    IN  [session |-> h, copied |-> ~ctx.ok, open |-> opened \cup {h}]

\* ContextToMgoSession, and Session.Copy when the context holds no session:
\* the session the handler runs on, whether it is a copy the handler closes
\* when it returns, and the sessions open then
OpenSession(ctx, opened, held) ==
    LET used == opened \cup held
        h == CHOOSE n \in 1..(Cardinality(used) + 1) : n \notin used
    IN  IF ctx.ok
        THEN [session |-> ctx.session, copied |-> FALSE, open |-> opened]
        ELSE [session |-> h, copied |-> TRUE, open |-> opened \cup {h}]

\* a call entered with context ctx
Frame(call, ctx, s, opened) ==
    [call |-> call, ctx |-> ctx, session |-> s.session, copied |-> s.copied,
     opened |-> opened, done |-> <<>>]

\* the database before a start-up: with or without the index, with or
\* without a client stored
StoreInit ==
    /\ clients \in {{}, {Client("c1", Hash(S1, 1), FALSE, FALSE, {}, 1, 0)}}
    /\ last = Call("init", BlankID, EmptyClient, BlankSecret, FALSE, {},
                   Ret({}, EmptyClient, Nil))
    /\ sessions = NoSessions
    /\ procs = [p \in Procs |-> Idle]
    /\ span = {}
    /\ indexes \in SUBSET {idxClientId}
    /\ open = {}
    /\ stack = <<>>

\* MongoStore.NewSession: the caller copies a session for its calls
NewSession ==
    /\ UNCHANGED <<clients, last, sessions, procs, span, indexes, stack>>
    /\ stack = <<>>
    /\ open = {}
    /\ open' = OpenSession(NoSessionContext, open, {}).open

\* the caller closes the session it copied
CloseSession ==
    /\ UNCHANGED <<clients, last, sessions, procs, span, indexes, stack>>
    /\ stack = <<>>
    /\ \E h \in open : open' = open \ {h}

\* a caller calls a handler, with or without a session in the context;
\* NewDefaultMongoStore takes no context and copies the session it hands on
StoreCall ==
    /\ UNCHANGED <<clients, last, sessions, procs, span, indexes>>
    /\ stack = <<>>
    /\ \E call \in TopCalls, ctx \in {NoSessionContext} \cup SessionContexts(open) :
        /\ call = NewDefaultMongoStore => ~ctx.ok
        /\ LET s == OpenSession(ctx, open, {})
           IN  /\ open' = s.open
               /\ stack' = <<Frame(call, ctx, s, open)>>

\* the call in progress makes its next call, handing on its context
StoreNested ==
    /\ UNCHANGED <<clients, last, sessions, procs, span, indexes>>
    /\ stack # <<>>
    /\ LET f == Head(stack)
           ctx == [ok |-> TRUE, session |-> f.session]
           s == OpenSession(ctx, open, {stack[i].session : i \in DOMAIN stack})
       IN  /\ Len(f.done) < Len(Callees(f.call))
           /\ \A i \in DOMAIN f.done : f.done[i] = Nil
           /\ open' = s.open
           /\ stack' = <<Frame(Callees(f.call)[Len(f.done) + 1], ctx, s, open)>> \o stack

\* the call in progress returns: with the error of the call it made that
\* failed, or else with its own outcome; the session it copied is closed.
\* NewDefaultMongoStore returns once a Configure failed or all were called.
StoreReturn ==
    /\ UNCHANGED <<clients, sessions, procs, span>>
    /\ stack # <<>>
    /\ \E dbErr \in StorageOutcomes :
        LET f == Head(stack)
            failed == {i \in DOMAIN f.done : f.done[i] # Nil}
            err == IF failed # {} THEN f.done[Len(f.done)]
                   ELSE IF f.call = NewDefaultMongoStore THEN Nil
                   ELSE dbErr
        IN  /\ f.call = NewDefaultMongoStore
                => (failed # {} \/ Len(f.done) = Len(Callees(f.call)))
            /\ indexes' = IF f.call = <<"clients", "Configure">>
                          THEN Configure(indexes, dbErr).indexes
                          ELSE indexes
            /\ open' = IF f.copied THEN open \ {f.session} ELSE open
            /\ stack' = IF Tail(stack) = <<>>
                        THEN <<>>
                        ELSE <<[stack[2] EXCEPT !.done = Append(@, err)]>>
                                \o Tail(Tail(stack))
            /\ last' = [op |-> f.call[2], manager |-> f.call[1], done |-> f.done,
                        err |-> err,
                        store |-> (f.call = NewDefaultMongoStore /\ err = Nil)]

StoreNext ==
    \/ NewSession
    \/ CloseSession
    \/ StoreCall
    \/ StoreNested
    \/ StoreReturn

StoreSpec == StoreInit /\ [][StoreNext]_vars

----------------------------------------------------------------------------
(* Properties *)

\* the record stored under id, for the ids that hold one
Stored(coll, id) == One(Find(coll, id))
Has(coll, id) == Find(coll, id) # {}

\* C1: Create with an explicit id that is already stored fails with
\* ErrResourceExists, and the record stored before stays readable through Get
\* with every field unchanged (the collection is as it was).
C1_CreateConflict ==
    [][(last'.op = "Create" /\ last'.id # BlankID /\ Has(clients, last'.id))
        => /\ last'.err = ErrResourceExists
           /\ Get(clients', last'.id) = Ret(clients, Stored(clients, last'.id), Nil)
           /\ clients' = clients]_vars

\* a second Create under a stored explicit id was refused
C1_Witness ==
    /\ last.op = "Create"
    /\ last.id \in ClientIDs
    /\ last.err = ErrResourceExists
    /\ Has(clients, last.id)
    /\ Stored(clients, last.id) # last.arg

\* AuthenticateMigration was called and took the migrate path: the legacy
\* function authenticated a record that is neither public nor disabled
MigratePath(call) ==
    /\ call.op = "AuthenticateMigration"
    /\ call.authed
    /\ ~call.arg.Public
    /\ ~call.arg.Disabled

\* C2: when AuthenticateMigration succeeds on the migrate path, the legacy
\* function having reported the client stored under id, whose secret is the
\* legacy digest of the secret presented, Authenticate with the same id and
\* plaintext secret succeeds afterwards.
C2_MigratedSecretAuthenticates ==
    [][(/\ MigratePath(last')
        /\ last'.arg \in Find(clients, last'.id)
        /\ last'.arg.Secret = LegacyHash(last'.secret)
        /\ last'.err = Nil)
        => Authenticate(clients', last'.id, last'.secret).err = Nil]_vars

\* C3 as stated: whenever the record resolved by Authenticate (the stored one)
\* or by AuthenticateMigration (the legacy function's) is disabled, the call
\* fails with ErrAccessDenied, public or not.
C3_DisabledNeverAuthenticated ==
    /\ (last.op = "Authenticate" /\ Has(clients, last.id)
            /\ Stored(clients, last.id).Disabled)
        => last.err = ErrAccessDenied
    /\ (last.op = "AuthenticateMigration" /\ last.arg.Disabled)
        => last.err = ErrAccessDenied

\* C3 amended: a disabled record that is not public is refused with
\* ErrAccessDenied whatever the secret; a record that is public and disabled is
\* authenticated, because public is decided first.
C3_DisabledNonPublicDenied ==
    /\ (last.op = "Authenticate" /\ Has(clients, last.id)
            /\ Stored(clients, last.id).Disabled)
        => IF Stored(clients, last.id).Public
           THEN last.err = Nil /\ last.result = Stored(clients, last.id)
           ELSE last.err = ErrAccessDenied /\ last.result = EmptyClient
    /\ (last.op = "AuthenticateMigration" /\ last.arg.Disabled)
        => IF last.arg.Public
           THEN last.err = Nil /\ last.result = last.arg
           ELSE last.err = ErrAccessDenied /\ last.result = EmptyClient

\* a disabled, non-public client was refused although its secret was the right one
C3_Witness ==
    /\ last.op = "Authenticate"
    /\ Has(clients, last.id)
    /\ Stored(clients, last.id).Disabled
    /\ ~Stored(clients, last.id).Public
    /\ Compare(Stored(clients, last.id).Secret, last.secret) = Nil
    /\ last.err = ErrAccessDenied

\* C4 as stated: every stored secret is a digest of the hasher.
C4_EverySecretIsDigest == \A c \in clients : IsDigest(c.Secret)

\* C4 amended: Create, Update, AuthenticateMigration, GrantScopes and
\* RemoveScopes leave under every id a hasher digest or the secret that was
\* stored under it before the call; only Migrate stores the secret of its
\* record as the caller gave it, hashed or not.
C4_OnlyMigrateStoresUnhashed ==
    [][\A c \in clients' :
          \/ IsDigest(c.Secret)
          \/ \E d \in Find(clients, c.ID) : d.Secret = c.Secret
          \/ last'.op = "Migrate" /\ c = last'.result /\ c.Secret = last'.secret]_vars

\* Update was given a plaintext and stored a digest of it, while another
\* client holds a secret that Migrate stored unhashed
C4_Witness ==
    /\ last.op = "Update"
    /\ last.err = Nil
    /\ last.secret \in Plaintexts
    /\ last.result \in clients
    /\ IsDigest(last.result.Secret)
    /\ last.result.Secret # last.secret
    /\ \E c \in clients : ~IsDigest(c.Secret)

\* C5: Update(id, rec) on a stored client keeps the stored hash as it is when
\* rec's secret is blank or equal to the stored hash; otherwise it stores a new
\* digest of rec's secret, which the hasher accepts for rec's secret and for no
\* other secret, the ones the old hash accepted included.
C5_UpdateSecret ==
    [][(last'.op = "Update" /\ Has(clients, last'.id))
        => /\ last'.err = Nil
           /\ Find(clients', last'.id) = {last'.result}
           /\ LET old == Stored(clients, last'.id).Secret
                  new == last'.result.Secret
              IN  IF last'.secret = BlankSecret \/ last'.secret = old
                  THEN new = old
                  ELSE /\ new # old
                       /\ IsDigest(new)
                       /\ Compare(new, last'.secret) = Nil
                       /\ \A p \in (Plaintexts \cup {BlankSecret, old}) \ {last'.secret} :
                              Compare(new, p) # Nil]_vars

\* Update replaced a stored secret by the digest of a new one
C5_Witness ==
    /\ last.op = "Update"
    /\ last.err = Nil
    /\ last.secret = S2
    /\ Has(clients, last.id)
    /\ Compare(Stored(clients, last.id).Secret, S2) = Nil
    /\ Compare(Stored(clients, last.id).Secret, S1) # Nil

\* C6: Authenticate(id, secret) answers ErrNotFound when no client is stored
\* under id; else succeeds for a public client whatever the secret; else
\* answers ErrAccessDenied for a disabled client; else succeeds exactly when
\* the hasher accepts the secret for the stored hash, and answers the hasher's
\* error when it does not.  So a client created neither public nor disabled
\* authenticates with the secret it was created with and with no other, and is
\* refused with ErrAccessDenied once Update has set disabled with a blank secret.
C6_AuthenticateOrder ==
    /\ last.op = "Authenticate" =>
         IF ~Has(clients, last.id)
         THEN last.err = ErrNotFound
         ELSE LET c == Stored(clients, last.id)
              IN  IF c.Public THEN last.err = Nil /\ last.result = c
                  ELSE IF c.Disabled THEN last.err = ErrAccessDenied
                  ELSE IF Compare(c.Secret, last.secret) = Nil
                       THEN last.err = Nil /\ last.result = c
                       ELSE last.err = ErrMismatchedHash
    /\ (last.op = "Create" /\ last.err = Nil /\ ~last.arg.Public /\ ~last.arg.Disabled) =>
         \A p \in Plaintexts \cup {BlankSecret} :
            Authenticate(clients, last.result.ID, p).err
                = IF p = last.secret THEN Nil ELSE ErrMismatchedHash
    /\ (last.op = "Update" /\ last.err = Nil /\ last.secret = BlankSecret
            /\ last.arg.Disabled /\ ~last.arg.Public) =>
         \A p \in Plaintexts \cup {BlankSecret} :
            Authenticate(clients, last.id, p).err = ErrAccessDenied

\* Update has disabled, with a blank secret, a client whose stored hash is a
\* digest of s1: Authenticate would have accepted s1 and now refuses it
C6_Witness ==
    /\ last.op = "Update"
    /\ last.err = Nil
    /\ last.secret = BlankSecret
    /\ last.arg.Disabled
    /\ Compare(last.result.Secret, S1) = Nil
    /\ Authenticate(clients, last.id, S1).err = ErrAccessDenied

\* C7: AuthenticateMigration with a legacy function that did not authenticate
\* answers ErrNotFound when the function returned the empty record; when it
\* returned a record that is neither public nor disabled, it succeeds, with
\* that record, exactly when the hasher accepts the secret for that record's
\* hash, and answers the hasher's error otherwise.
C7_NoRehashOutcomes ==
    (last.op = "AuthenticateMigration" /\ ~last.authed) =>
        /\ last.arg = EmptyClient => last.err = ErrNotFound
        /\ (last.arg # EmptyClient /\ ~last.arg.Public /\ ~last.arg.Disabled) =>
              IF Compare(last.arg.Secret, last.secret) = Nil
              THEN last.err = Nil /\ last.result = last.arg
              ELSE last.err = ErrMismatchedHash /\ last.result = EmptyClient

\* the legacy function did not authenticate and the secret was accepted
\* for the record's current hash
C7_Witness ==
    /\ last.op = "AuthenticateMigration"
    /\ ~last.authed
    /\ last.arg # EmptyClient
    /\ ~last.arg.Public
    /\ ~last.arg.Disabled
    /\ Compare(last.arg.Secret, last.secret) = Nil
    /\ last.err = Nil

\* C8 as stated: on the migrate path, the legacy function having reported the
\* client stored under id, the call returns the persisted record with no error,
\* and that record differs from the one stored before the call in its secret
\* only.
C8_OnlySecretChanges ==
    [][(MigratePath(last') /\ last'.arg \in Find(clients, last'.id))
        => /\ last'.err = Nil
           /\ Find(clients', last'.id) = {last'.result}
           /\ [last'.result EXCEPT !.Secret = Stored(clients, last'.id).Secret]
                 = Stored(clients, last'.id)]_vars

\* C8 amended: on the migrate path for a stored client the call returns the
\* persisted record with no error; that record is the record the legacy
\* function returned with its id set to the id argument, a new secret and the
\* update-time stamped, so when the legacy function returned the stored record
\* the persisted one differs from it in secret and update-time only; no other
\* client is touched.
C8_MigratePathFrame ==
    [][(MigratePath(last') /\ Has(clients, last'.id))
        => /\ last'.err = Nil
           /\ Find(clients', last'.id) = {last'.result}
           /\ clients' \ {last'.result} = clients \ Find(clients, last'.id)
           /\ last'.result = [last'.arg EXCEPT !.ID = last'.id,
                                               !.Secret = last'.result.Secret,
                                               !.UpdateTime = last'.result.UpdateTime]
           /\ last'.result.Secret # Stored(clients, last'.id).Secret
           /\ last'.result.UpdateTime \in 1..MaxTime
           /\ last'.arg \in clients =>
                 [last'.result EXCEPT !.Secret = last'.arg.Secret,
                                      !.UpdateTime = last'.arg.UpdateTime] = last'.arg]_vars

\* the migrate path rewrote a client while another client was stored
C8_Witness ==
    /\ MigratePath(last)
    /\ last.err = Nil
    /\ last.result \in clients
    /\ last.arg.ID = last.id
    /\ last.arg.Scopes # {}
    /\ Cardinality(clients) = 2

\* C9: Migrate(rec) is an upsert by id that stamps by what the store holds:
\* when no client is stored under rec's id, rec is inserted with its
\* create-time set and nothing else changed; when one is stored, it is replaced
\* by rec with the update-time stamped and nothing else changed.
C9_MigrateStampsByExistence ==
    [][(last'.op = "Migrate" /\ last'.arg.ID # BlankID)
        => /\ last'.err = Nil
           /\ Find(clients', last'.arg.ID) = {last'.result}
           /\ clients' \ {last'.result} = clients \ Find(clients, last'.arg.ID)
           /\ IF Has(clients, last'.arg.ID)
              THEN /\ last'.result.UpdateTime \in 1..MaxTime
                   /\ last'.result
                        = [last'.arg EXCEPT !.UpdateTime = last'.result.UpdateTime]
              ELSE /\ last'.result.CreateTime # 0
                   /\ last'.result
                        = [last'.arg EXCEPT !.CreateTime = last'.result.CreateTime]]_vars

\* C10: Delete(id) of a stored client succeeds and removes its record and no
\* other, after which Get(id) and another Delete(id) answer ErrNotFound;
\* Delete(id) of an id that is not stored answers ErrNotFound and removes
\* nothing.
C10_DeleteThenNotFound ==
    [][last'.op = "Delete"
        => IF Has(clients, last'.id)
           THEN /\ last'.err = Nil
                /\ clients' = clients \ Find(clients, last'.id)
                /\ Get(clients', last'.id).err = ErrNotFound
                /\ Delete(clients', last'.id) = Ret(clients', EmptyClient, ErrNotFound)
           ELSE /\ last'.err = ErrNotFound
                /\ clients' = clients]_vars

\* Delete removed one of two stored clients
C10_Witness ==
    /\ last.op = "Delete"
    /\ last.err = Nil
    /\ ~Has(clients, last.id)
    /\ clients # {}

\* C11: when Create accepts a client C, Get under the id of the record Create
\* returned answers that very record, and GetClient answers it too; the record
\* is C with its id and create-time filled in where C left them blank and with
\* its secret replaced by a digest the hasher accepts for C's secret, a string
\* that differs from C's secret.
C11_GetAfterCreate ==
    (last.op = "Create" /\ last.err = Nil) =>
        /\ Get(clients, last.result.ID) = Ret(clients, last.result, Nil)
        /\ GetClient(clients, last.result.ID) = Get(clients, last.result.ID)
        /\ IsDigest(last.result.Secret)
        /\ Compare(last.result.Secret, last.arg.Secret) = Nil
        /\ last.result.Secret # last.arg.Secret
        /\ last.arg.ID # BlankID => last.result.ID = last.arg.ID
        /\ last.arg.CreateTime # 0 => last.result.CreateTime = last.arg.CreateTime
        /\ [last.result EXCEPT !.ID = last.arg.ID, !.Secret = last.arg.Secret,
                               !.CreateTime = last.arg.CreateTime] = last.arg

\* Create accepted a client with a blank id and a plaintext secret while
\* another client was stored
C11_Witness ==
    /\ last.op = "Create"
    /\ last.err = Nil
    /\ last.arg.ID = BlankID
    /\ last.arg.Secret = S1
    /\ last.result \in clients
    /\ Cardinality(clients) = 2

\* C13: Update(id, rec) on a stored client stores and returns a record whose
\* id is the id argument, whatever id rec carries, and every record stored
\* under another id, rec's id included, is as it was: none is created,
\* modified or removed.  Update under an id that is not stored answers
\* ErrNotFound and changes nothing.
C13_UpdateKeepsID ==
    [][last'.op = "Update"
        => IF Has(clients, last'.id)
           THEN /\ last'.err = Nil
                /\ last'.result.ID = last'.id
                /\ Find(clients', last'.id) = {last'.result}
                /\ clients' \ Find(clients', last'.id)
                      = clients \ Find(clients, last'.id)
                /\ last'.arg.ID # last'.id
                      => Find(clients', last'.arg.ID) = Find(clients, last'.arg.ID)
           ELSE /\ last'.err = ErrNotFound
                /\ last'.result = EmptyClient
                /\ clients' = clients]_vars

\* Update under c1 was given a record that carries the id of another stored
\* client, and stored it under c1
C13_Witness ==
    /\ last.op = "Update"
    /\ last.err = Nil
    /\ last.id = "c1"
    /\ last.arg.ID = "u1"
    /\ Has(clients, "u1")
    /\ last.result.ID = "c1"
    /\ last.result \in clients

----------------------------------------------------------------------------
(* Properties of the session operations, under SessionSpec *)

\* the session collection that is not entity
OtherEntity(entity) == CHOOSE e \in SessionEntities : e # entity

\* the Get and Delete operation of a session collection
GetSessionOf(entity, db, coll, sig, session) ==
    IF entity = EntityPKCESessions
    THEN GetPKCERequestSession(db, coll, sig, session)
    ELSE GetOpenIDConnectSession(db, coll, sig, DestinationRequester(session))

DeleteSessionOf(entity, db, sig) ==
    IF entity = EntityPKCESessions
    THEN DeletePKCERequestSession(db, sig)
    ELSE DeleteOpenIDConnectSession(db, sig)

\* C14: CreatePKCERequestSession and CreateOpenIDConnectSession answer
\* ErrResourceExists when their collection holds a record with the signature,
\* and leave that record, like every other, as it was; otherwise they store
\* the requester's document in their collection, whether or not the other
\* kind's collection holds a record with the same signature.
C14_SessionConflict ==
    [][last'.op = "CreateSession"
        => IF FindBySignature(sessions, last'.entity, last'.sig) # {}
           THEN /\ last'.err = ErrResourceExists
                /\ sessions' = sessions
           ELSE /\ last'.err = Nil
                /\ sessions' = [sessions EXCEPT ![last'.entity] =
                                    @ \cup {toMongo(last'.sig, last'.request)}]]_vars

\* a Create was refused for a signature stored with another requester's
\* document, which is still there, while the other kind's collection holds a
\* record with the same signature
C14_Witness ==
    /\ last.op = "CreateSession"
    /\ last.err = ErrResourceExists
    /\ FindBySignature(sessions, last.entity, last.sig) # {}
    /\ toMongo(last.sig, last.request) \notin sessions[last.entity]
    /\ FindBySignature(sessions, OtherEntity(last.entity), last.sig) # {}

\* C15: GetPKCERequestSession and GetOpenIDConnectSession answer ErrNotFound
\* and no requester when their collection holds no record with the signature,
\* and also when it holds one whose client is not in the clients collection.
C15_GetSessionNotFound ==
    last.op = "GetSession" =>
        LET found == FindBySignature(sessions, last.entity, last.sig)
        IN  (found = {} \/ \E d \in found : ~Has(clients, d.ClientID))
                => /\ last.err = ErrNotFound
                   /\ last.result = NilRequester

\* a Get, given a session to decode into, was refused for a stored record
\* whose client, stored when the session was created, has been deleted
C15_Witness ==
    /\ last.op = "GetSession"
    /\ last.session # NilSession
    /\ last.err = ErrNotFound
    /\ \E d \in FindBySignature(sessions, last.entity, last.sig) :
            /\ d.ClientID = SessionClient.ID
            /\ ~Has(clients, d.ClientID)

\* C16: DeletePKCERequestSession and DeleteOpenIDConnectSession remove the
\* record with the signature from their collection, and no other record;
\* after that Get with the signature answers ErrNotFound and so does another
\* Delete.  Delete of a signature that is not stored, because it never was or
\* because it was deleted, answers ErrNotFound and removes nothing.
C16_DeleteSession ==
    [][last'.op = "DeleteSession"
        => LET e == last'.entity
               found == FindBySignature(sessions, e, last'.sig)
           IN  IF found # {}
               THEN /\ last'.err = Nil
                    /\ sessions' = [sessions EXCEPT ![e] = @ \ found]
                    /\ \A session \in SessionDestinations :
                          GetSessionOf(e, sessions', clients', last'.sig, session)
                            = SRet(sessions', NilRequester, ErrNotFound)
                    /\ DeleteSessionOf(e, sessions', last'.sig)
                            = SRet(sessions', NilRequester, ErrNotFound)
               ELSE /\ last'.err = ErrNotFound
                    /\ sessions' = sessions]_vars

\* a Delete removed the record with its signature while its collection holds
\* another record and the other kind's collection one with the same signature
C16_Witness ==
    /\ last.op = "DeleteSession"
    /\ last.err = Nil
    /\ FindBySignature(sessions, last.entity, last.sig) = {}
    /\ sessions[last.entity] # {}
    /\ FindBySignature(sessions, OtherEntity(last.entity), last.sig) # {}

\* C17: when Create*Session has stored a requester R whose client is stored,
\* Get*Session with the same signature, whatever session it is given to
\* decode into, answers a requester whose client, scopes, granted scopes,
\* audience, granted audience and form values are those of R.
C17_SessionRoundTrip ==
    [][(/\ last'.op = "CreateSession"
        /\ last'.err = Nil
        /\ last'.request.Client \in clients)
        => \A session \in SessionDestinations :
              LET got == GetSessionOf(last'.entity, sessions', clients',
                                      last'.sig, session)
                  R == last'.request
              IN  /\ got.err = Nil
                  /\ got.result # NilRequester
                  /\ got.result.Client = R.Client
                  /\ got.result.RequestedScope = R.RequestedScope
                  /\ got.result.GrantedScope = R.GrantedScope
                  /\ got.result.RequestedAudience = R.RequestedAudience
                  /\ got.result.GrantedAudience = R.GrantedAudience
                  /\ got.result.Form = R.Form]_vars

\* the collections of db exchanged
Swap(db) == [e \in SessionEntities |-> db[OtherEntity(e)]]

\* a PKCE operation and an OpenID Connect operation had the same outcome and
\* left corresponding collections
SameOutcome(pkce, oidc) ==
    /\ pkce.err = oidc.err
    /\ pkce.result = oidc.result
    /\ oidc.sessions = Swap(pkce.sessions)

\* C18: in every state the PKCE operations on the PKCE collection and the
\* OpenID Connect operations on a collection with the same records answer the
\* same result and error for the same arguments, a nil session to decode into
\* included, and leave the same records.
C18_KindsEquivalent ==
    \A sig \in Signatures :
        /\ \A request \in Requesters(clients) :
              SameOutcome(CreatePKCERequestSession(sessions, sig, request),
                          CreateOpenIDConnectSession(Swap(sessions), sig, request))
        /\ \A session \in SessionDestinations :
              SameOutcome(GetPKCERequestSession(sessions, clients, sig, session),
                          GetOpenIDConnectSession(Swap(sessions), clients, sig,
                                                  DestinationRequester(session)))
        /\ SameOutcome(DeletePKCERequestSession(sessions, sig),
                       DeleteOpenIDConnectSession(Swap(sessions), sig))

----------------------------------------------------------------------------
(* Properties of concurrent calls, under ConcurrentSpec *)

\* C12: whatever calls of Create, Update, Migrate, AuthenticateMigration,
\* GrantScopes, RemoveScopes and Delete two callers have made, one after the
\* other or interleaved, and wherever the calls in flight stand, the clients
\* collection holds at most one record per client id.
C12_UniqueID == \A c, d \in clients : c.ID = d.ID => c = d

\* a Migrate found no record under the id, a Create of the other caller
\* inserted one meanwhile, and the insert of the Migrate was refused
C12_Witness ==
    \E p, q \in Procs :
        /\ procs[p].pc = "done" /\ procs[p].op = "Migrate"
        /\ procs[p].err = ErrResourceExists
        /\ procs[q].pc = "done" /\ procs[q].op = "Create"
        /\ procs[q].err = Nil
        /\ clients = {procs[q].doc}

\* the callers whose call has returned with err
Returned(err) == {p \in Procs : procs[p].pc = "done" /\ procs[p].err = err}

\* C19: when the only calls made are two concurrent Creates under one id, at
\* no point have both succeeded, the collection holds exactly the record of
\* the Create that has succeeded, if any, no Create is refused before the
\* other has succeeded, and once both have returned one has succeeded and the
\* other was refused with ErrResourceExists.
C19_ConcurrentCreate ==
    (\A p \in Procs : procs[p].op = "Create" /\ procs[p].calls = 1) =>
        /\ Cardinality(Returned(Nil)) <= 1
        /\ clients = {procs[p].doc : p \in Returned(Nil)}
        /\ Returned(ErrResourceExists) # {} => Returned(Nil) # {}
        /\ (\A p \in Procs : procs[p].pc = "done") =>
              /\ Cardinality(Returned(Nil)) = 1
              /\ Cardinality(Returned(ErrResourceExists)) = 1

\* two Creates overlapped: the caller that started second, whose digest has
\* the second salt, inserted first, and the caller that started first was
\* refused
C19_Witness ==
    \E p, q \in Procs :
        /\ procs[p].op = "Create" /\ procs[p].calls = 1
        /\ procs[q].op = "Create" /\ procs[q].calls = 1
        /\ procs[p].pc = "done" /\ procs[p].err = ErrResourceExists
        /\ procs[q].pc = "done" /\ procs[q].err = Nil
        /\ procs[q].doc.Secret = Hash(S1, 2)
        /\ clients = {procs[q].doc}

----------------------------------------------------------------------------
(* Properties of the failure paths, under FailureSpec *)

\* C20: every client record that Create, Update or Migrate has logged on its
\* span after a storage error carries the redaction marker in place of its
\* secret.
C20_LoggedSecretsRedacted == \A payload \in span : payload.Secret = Redacted

----------------------------------------------------------------------------
(* Properties of List *)

\* C21: List answers exactly the stored clients that meet every constraint of
\* the filter. On the scopes: with a scope-union set given, the client holds
\* ANY of its scopes, whether or not a scope-intersection set is given too
\* (the intersection constraint is overwritten); with only a
\* scope-intersection set, the client holds ALL of its scopes. Every other
\* field that is non-empty or true must be met as well, and a field left
\* empty or false constrains nothing.
C21_ListFilter ==
    last.op = "List" =>
        LET f == last.filter
            ScopesMet(c) ==
                IF f.ScopesUnion # {} THEN f.ScopesUnion \cap c.Scopes # {}
                ELSE IF f.ScopesIntersection # {}
                     THEN f.ScopesIntersection \subseteq c.Scopes
                     ELSE TRUE
        IN  /\ last.err = Nil
            /\ last.result =
                {c \in clients :
                    /\ ScopesMet(c)
                    /\ f.AllowedTenantAccess # "" => f.AllowedTenantAccess \in c.AllowedTenantAccess
                    /\ f.RedirectURI # "" => f.RedirectURI \in c.RedirectURIs
                    /\ f.GrantType # "" => f.GrantType \in c.GrantTypes
                    /\ f.ResponseType # "" => f.ResponseType \in c.ResponseTypes
                    /\ f.Contact # "" => f.Contact \in c.Contacts
                    /\ f.Public => c.Public
                    /\ f.Disabled => c.Disabled}

\* List was called with both scope sets and a grant type; it answered a client
\* that holds one scope of the union but not every scope of the intersection,
\* and left out a client that holds the scopes but not the grant type
C21_Witness ==
    /\ last.op = "List"
    /\ last.filter.ScopesIntersection = {"read", "write"}
    /\ last.filter.ScopesUnion = {"read"}
    /\ last.filter.GrantType = "a"
    /\ \E c \in last.result : c.Scopes = {"read"}
    /\ \E c \in clients \ last.result : c.Scopes = {"read", "write"}

----------------------------------------------------------------------------
(* Properties of the scope and authentication calls *)

\* C23: GrantScopes(id, S) and RemoveScopes(id, S) on a stored client replace
\* its record by one that differs only in the scopes (S added, respectively
\* removed) and in the update-time: the secret is the stored one, the id, the
\* flags and the create-time are unchanged, and no other record is touched.
\* On an id that is not stored both fail with ErrNotFound and store nothing.
C23_ScopesFrame ==
    [][last'.op \in {"GrantScopes", "RemoveScopes"} =>
        IF Has(clients, last'.id)
        THEN LET old == Stored(clients, last'.id)
                 scopes == IF last'.op = "GrantScopes"
                           THEN old.Scopes \cup last'.scopes
                           ELSE old.Scopes \ last'.scopes
             IN  /\ last'.err = Nil
                 /\ last'.result.UpdateTime \in 1..MaxTime
                 /\ last'.result = [old EXCEPT !.Scopes = scopes,
                                               !.UpdateTime = last'.result.UpdateTime]
                 /\ clients' = (clients \ {old}) \cup {last'.result}
        ELSE /\ last'.err = ErrNotFound
             /\ clients' = clients]_vars

\* GrantScopes succeeded on a client whose secret is stored as a digest
C23_Witness ==
    /\ last.op = "GrantScopes"
    /\ last.err = Nil
    /\ Has(clients, last.id)
    /\ last.scopes \subseteq Stored(clients, last.id).Scopes
    /\ IsDigest(Stored(clients, last.id).Secret)
    /\ Stored(clients, last.id).UpdateTime > 0

\* C24: AuthenticateMigration leaves the clients collection as it was unless
\* it takes the migrate path, i.e. whenever it returns ErrNotFound for the
\* legacy function having found nothing, succeeds for a public client, refuses
\* a disabled client, or falls back to comparing the secret; Authenticate
\* never changes the collection.
C24_AuthenticationFrame ==
    [][(\/ last'.op = "Authenticate"
        \/ last'.op = "AuthenticateMigration" /\ ~MigratePath(last'))
        => clients' = clients]_vars

\* AuthenticateMigration took the fall-back path for a stored client, which
\* the legacy function reported without authenticating it, and succeeded
C24_Witness ==
    /\ last.op = "AuthenticateMigration"
    /\ ~last.authed
    /\ ~last.arg.Public
    /\ ~last.arg.Disabled
    /\ last.err = Nil
    /\ last.arg \in clients

----------------------------------------------------------------------------
(* Properties of concurrent updates *)

\* C26: Update never creates or resurrects a client. No step of a call that
\* writes through Update (Update, GrantScopes, RemoveScopes, the migrate path
\* of AuthenticateMigration) adds an id to the collection, and when the client
\* has been removed between the call's read and its write, the call fails
\* with ErrNotFound and the client stays absent.
C26_UpdateNeverCreates ==
    [][\A p \in Procs :
        (procs[p].pc \in {"scopes.read", "update.read", "update.write"}
            /\ procs'[p] # procs[p])
        => /\ {c.ID : c \in clients'} \subseteq {c.ID : c \in clients}
           /\ (procs[p].pc = "update.write" /\ ~Has(clients, procs[p].id))
                => /\ procs'[p].pc = "done"
                   /\ procs'[p].err = ErrNotFound
                   /\ ~Has(clients', procs[p].id)]_vars

\* a call has read the client and is about to write it, and the other
\* caller's Delete has removed the client meanwhile
C26_Witness ==
    \E p, q \in Procs :
        /\ procs[p].pc = "update.write"
        /\ procs[p].op \in {"Update", "GrantScopes", "AuthenticateMigration"}
        /\ ~Has(clients, procs[p].id)
        /\ procs[q].pc = "done"
        /\ procs[q].op = "Delete"
        /\ procs[q].id = procs[p].id
        /\ procs[q].err = Nil

\* C27: scope grants are additive under concurrency. When a caller's
\* GrantScopes(id, A) succeeds while the scopes B of the other caller's
\* successful GrantScopes(id, B) are stored, the stored client holds every
\* scope of A and every scope of B afterwards.
C27_GrantsAdditive ==
    [][\A p, q \in Procs :
        (/\ p # q
         /\ procs[p].pc = "update.write" /\ procs[p].op = "GrantScopes"
         /\ procs'[p].pc = "done" /\ procs'[p].err = Nil
         /\ procs[q].pc = "done" /\ procs[q].op = "GrantScopes"
         /\ procs[q].err = Nil /\ procs[q].id = procs[p].id
         /\ Has(clients, procs[p].id)
         /\ ConcurrentScopes(q) \subseteq Stored(clients, procs[p].id).Scopes)
        => /\ Has(clients', procs[p].id)
           /\ ConcurrentScopes(p) \cup ConcurrentScopes(q)
                \subseteq Stored(clients', procs[p].id).Scopes]_vars

----------------------------------------------------------------------------
(* Properties of start-up and of the database sessions *)

\* C22: Configure is idempotent. Whenever the client manager's Configure
\* returns, the stored records are as before; when it returns no error the
\* clients collection has exactly one index, the unique index on id, however
\* often Configure ran before; run on a collection that has the index it
\* changes nothing, and it returns an error only when the database fails.
\* NewDefaultMongoStore returns a store exactly when Configure has succeeded
\* for the cache, client, user and request managers; otherwise it returns the
\* error of the first Configure that failed, no store, and has called no
\* Configure after that one.
C22_ConfigureIdempotent ==
    [][(stack # <<>> /\ Len(stack') < Len(stack)) =>
        LET call == Head(stack).call
        IN  /\ call = <<"clients", "Configure">> =>
                /\ clients' = clients
                /\ last'.err = Nil => indexes' = {idxClientId}
                /\ last'.err # Nil => indexes' = indexes /\ last'.err = ErrStorage
                /\ indexes = {idxClientId} => indexes' = indexes
            /\ call = NewDefaultMongoStore =>
                /\ clients' = clients
                /\ last'.store <=> last'.done = [i \in DOMAIN Managers |-> Nil]
                /\ last'.store <=> last'.err = Nil
                /\ last'.store => indexes' = {idxClientId}
                /\ ~last'.store =>
                    /\ last'.done # <<>>
                    /\ last'.err = last'.done[Len(last'.done)]
                    /\ \A i \in 1..(Len(last'.done) - 1) : last'.done[i] = Nil]_vars

\* Configure of the client manager returned without error on a collection
\* that had the index already and holds a client
C22_Witness ==
    /\ last.op = "Configure"
    /\ last.manager = "clients"
    /\ last.err = Nil
    /\ indexes = {idxClientId}
    /\ clients # {}
    /\ stack # <<>>
    /\ Head(stack).call = NewDefaultMongoStore
    /\ Len(Head(stack).done) = 2

\* C25: a call that finds no session in its context copies exactly one
\* session and closes it when it returns, whatever it returns; a call that
\* receives a session in its context runs on that session and neither copies
\* nor closes one. Hence every call in progress, nested calls included, runs
\* on a session that is open, and when a call returns the open sessions are
\* the ones that were open when it was entered.
C25_SessionPerCall ==
    [][/\ \A i \in DOMAIN stack' : stack'[i].session \in open'
       /\ Len(stack') > Len(stack) =>
            LET f == Head(stack')
            IN  IF f.ctx.ok
                THEN open' = open /\ f.session = f.ctx.session
                ELSE /\ open \subseteq open'
                     /\ Cardinality(open') = Cardinality(open) + 1
                     /\ f.session \in open' \ open
       /\ Len(stack') < Len(stack) =>
            LET f == Head(stack)
            IN  /\ open' = f.opened
                /\ IF f.ctx.ok THEN open' = open ELSE open' = open \ {f.session}]_vars

\* GrantScopes, called without a session, has copied one, and the Update it
\* called is calling getConcrete on that session, the only one open
C25_Witness ==
    /\ Len(stack) = 3
    /\ stack[3].call = <<"clients", "GrantScopes">>
    /\ ~stack[3].ctx.ok
    /\ stack[2].call = <<"clients", "Update">>
    /\ stack[1].call = <<"clients", "getConcrete">>
    /\ stack[1].session = stack[3].session
    /\ open = {stack[3].session}

====
